---- MODULE Spec2Model ----
(***************************************************************************)
(* Model of the Presidents rules engine of src/convex/games.js: dealing,   *)
(* playCards, pass, restartRound and submitExchangeSelection, each Convex  *)
(* mutation being one atomic step.                                         *)
(*                                                                         *)
(* A card identifier rank+suit ("AS") is the pair <<rank, suit>>; id[0] is *)
(* its first component.  Users are numbered 1..members in lobby seat       *)
(* order, user 1 being the room's creator and administrator.  A user id of *)
(* 0 and the rank "undefined" stand for an absent (undefined) field; an    *)
(* absent array field reads as <<>>, as every read in the code is `?? []`. *)
(*                                                                         *)
(* Every handler is two actions: the one that returns, guarded by the      *)
(* negation of every throw on its path, and the one that throws, which     *)
(* changes nothing but the response res.  turnStartedAt (Date.now()) is    *)
(* not kept: no step reads it.                                             *)
(***************************************************************************)
EXTENDS Integers, Sequences, FiniteSets, TLC

(* ---------------------------- bounds ----------------------------------- *)
\* largest lobby explored
MaxPlayers == 4
\* accepted intents explored per game (cap on gameState.turnNumber)
MaxTurn == 5
\* longest cardIds argument explored
MaxSel == 3

\* the values of room.deckCount explored: one deck, and two decks, which hold
\* every card identifier twice
DeckCounts == {1, 2}

(* ------------------------ cards and ranks ------------------------------ *)
\* games.js:4 -- the model keeps the first four of the thirteen ranks
RANKS == <<"A", "2", "3", "4">>
\* games.js:5 -- the model keeps the first of the four suits
SUITS == <<"S">>
RANK_ORDER == <<"2", "A", "K", "Q", "J", "T", "9", "8", "7", "6", "5", "4", "3">>

\* the value the code gives to a rank that is not in RANK_ORDER
UnknownRankValue == 999

Undefined == "undefined"
NoUser == 0

Rank(id) == id[1]

Min(a, b) == IF a < b THEN a ELSE b

Range(s) == {s[i] : i \in 1..Len(s)}

\* Array.prototype.indexOf, 1-based; 0 when absent
IndexOf(s, x) ==
  IF \E i \in 1..Len(s) : s[i] = x
  THEN CHOOSE i \in 1..Len(s) : s[i] = x /\ \A j \in 1..(i - 1) : s[j] # x
  ELSE 0

\* Array.prototype.splice(i, 1)
Splice(s, i) == SubSeq(s, 1, i - 1) \o SubSeq(s, i + 1, Len(s))

\* s.filter((c) => !set.has(c))
RECURSIVE FilterOut(_, _)
FilterOut(s, drop) ==
  IF s = <<>> THEN <<>>
  ELSE (IF Head(s) \in drop THEN <<>> ELSE <<Head(s)>>) \o FilterOut(Tail(s), drop)

RECURSIVE Flatten(_)
Flatten(ss) == IF ss = <<>> THEN <<>> ELSE Head(ss) \o Flatten(Tail(ss))

\* number of occurrences of x in s
Count(s, x) == Cardinality({i \in 1..Len(s) : s[i] = x})

\* rankValue reading the deck order RANKS instead of RANK_ORDER
rankValueInDeckOrder(rank) ==
  LET i == IndexOf(RANKS, rank) - 1
  IN  IF i < 0 THEN UnknownRankValue ELSE i

rankValue(rank) ==
  LET i == IndexOf(RANK_ORDER, rank) - 1
  IN  IF i < 0 THEN UnknownRankValue ELSE i

\* one standard set: for each suit, for each rank
OneDeck ==
  Flatten([s \in 1..Len(SUITS) |-> [r \in 1..Len(RANKS) |-> <<RANKS[r], SUITS[s]>>]])

buildDeck(deckCount) == Flatten([d \in 1..deckCount |-> OneDeck])

CardIds == Range(OneDeck)

\* distributeEvenly giving the extra cards to the last seats
distributeEvenlyExtraLast(deck, numPlayers) ==
  LET total == Len(deck)
      baseCount == total \div numPlayers
      remainder == total % numPlayers
      count(p) == baseCount + (IF p >= numPlayers - remainder THEN 1 ELSE 0)
      idx(p) == p * baseCount + (IF p > numPlayers - remainder
                                 THEN p - (numPlayers - remainder) ELSE 0)
  IN  [q \in 1..numPlayers |-> SubSeq(deck, idx(q - 1) + 1, idx(q - 1) + count(q - 1))]

\* distributeEvenly dealing the cards one at a time around the seats
distributeEvenlyRoundRobin(deck, numPlayers) ==
  [q \in 1..numPlayers |->
     LET mine == {i \in 1..Len(deck) : (i - 1) % numPlayers = q - 1}
     IN  [k \in 1..Cardinality(mine) |-> deck[(k - 1) * numPlayers + q]]]

distributeEvenly(deck, numPlayers) ==
  LET total == Len(deck)
      baseCount == total \div numPlayers
      remainder == total % numPlayers
      count(p) == baseCount + (IF p < remainder THEN 1 ELSE 0)
      \* idx before slice p (p is 0-based)
      idx(p) == p * baseCount + Min(p, remainder)
  IN  [q \in 1..numPlayers |-> SubSeq(deck, idx(q - 1) + 1, idx(q - 1) + count(q - 1))]

(* ---- shuffleArray: Math.random makes every permutation possible -------- *)
(* The engine never looks at the order of cards inside a hand, so of the   *)
(* permutations that differ only inside the slices distributeEvenly will   *)
(* cut, the one with each slice in deck order is kept.                     *)
BagOf(s) == [c \in CardIds |-> Count(s, c)]

BagSize(b) == LET RECURSIVE Sum(_)
                  Sum(S) == IF S = {} THEN 0
                            ELSE LET c == CHOOSE c \in S : TRUE
                                 IN  b[c] + Sum(S \ {c})
              IN  Sum(CardIds)

\* the cards of bag b in deck order
BagSeq(b) == Flatten([i \in 1..Len(OneDeck) |-> [k \in 1..b[OneDeck[i]] |-> OneDeck[i]]])

SubBags(b, k) ==
  LET m == CHOOSE x \in {b[c] : c \in CardIds} : \A c \in CardIds : b[c] <= x
  IN  {h \in [CardIds -> 0..Min(m, k)] : (\A c \in CardIds : h[c] <= b[c]) /\ BagSize(h) = k}

RECURSIVE Deals(_, _)
Deals(b, sizes) ==
  IF sizes = <<>> THEN {<<>>}
  ELSE UNION {{BagSeq(h) \o rest : rest \in Deals([c \in CardIds |-> b[c] - h[c]], Tail(sizes))}
              : h \in SubBags(b, Head(sizes))}

shuffleArray(arr, numPlayers) ==
  LET slices == distributeEvenly(arr, numPlayers)
  IN  Deals(BagOf(arr), [p \in 1..numPlayers |-> Len(slices[p])])

(* ------------------------------ state ---------------------------------- *)
VARIABLES
  members,      \* number of roomMembers rows of the room
  deckCount,    \* room.deckCount
  roomStatus,   \* room.status
  gamePlayers,  \* gamePlayers rows in creation order: userId |-> [seatIndex, hand]
  gameState,    \* the gameStates row of the active game
  res           \* outcome of the last request: returned (ok) or ConvexError thrown

vars == <<members, deckCount, roomStatus, gamePlayers, gameState, res>>

Users == 1..members

\* the room's creator holds role "admin" (rooms.js:146)
IsAdmin(u) == u = 1

NoGameState ==
  [phase |-> "none", currentTurnUserId |-> NoUser, turnNumber |-> 0,
   discardPile |-> <<>>, lastPlayedCount |-> 0, lastPlayedRank |-> Undefined,
   lastPlayedBy |-> NoUser, passedUserIds |-> <<>>, finishedOrder |-> <<>>,
   roundLoserId |-> NoUser, exchangePairs |-> <<>>, exchangeSelections |-> <<>>,
   roundLeaderId |-> NoUser]

Accepted(op, u, cardIds) == [op |-> op, user |-> u, cardIds |-> cardIds, ok |-> TRUE]
\* a ConvexError was thrown: the caller learns only that the request failed
Rejected == [op |-> "rejected", user |-> NoUser, cardIds |-> <<>>, ok |-> FALSE]
NoRequest == [op |-> "none", user |-> NoUser, cardIds |-> <<>>, ok |-> TRUE]

\* cardIds arguments explored: every selection of at most MaxSel cards, in deck order
RECURSIVE SortedSeqs(_, _)
SortedSeqs(k, from) ==
  IF k = 0 THEN {<<>>}
  ELSE {<<>>} \cup UNION {{<<OneDeck[i]>> \o t : t \in SortedSeqs(k - 1, i)}
                          : i \in from..Len(OneDeck)}

Selections == SortedSeqs(MaxSel, 1)

\* largest count of an exchange obligation (games.js:578)
MaxExchangeCount == 2

\* A room in the lobby.  With 52 cards a deck and at most 10 seats the first deal
\* gives every seat more cards than any exchange obligation asks for; the rooms
\* explored keep that: the pool holds MaxExchangeCount cards for every member.
Init ==
  /\ members \in 1..MaxPlayers
  /\ deckCount \in DeckCounts
  /\ members * MaxExchangeCount <= Len(buildDeck(deckCount))
  /\ roomStatus = "waiting"
  /\ gamePlayers = <<>>
  /\ gameState = NoGameState
  /\ res = NoRequest

(* ----------------------------- startGame -------------------------------- *)
startGameAccepts(u) ==
  /\ roomStatus # "in_progress"
  /\ IsAdmin(u)
  /\ members >= 2

startGame(u) ==
  /\ startGameAccepts(u)
  /\ LET fullDeck == buildDeck(IF deckCount > 1 THEN deckCount ELSE 1)
     IN  \E shuffled \in shuffleArray(fullDeck, members) :
           LET hands == distributeEvenly(shuffled, members)
           IN  gamePlayers' = [i \in 1..members |-> [seatIndex |-> i - 1, hand |-> hands[i]]]
  /\ gameState' = [NoGameState EXCEPT !.phase = "play", !.currentTurnUserId = 1]
  /\ roomStatus' = "in_progress"
  /\ res' = Accepted("startGame", u, <<>>)
  /\ UNCHANGED <<members, deckCount>>

startGameRejected ==
  /\ TRUE = (\E u \in Users : ~startGameAccepts(u))
  /\ res' = Rejected
  /\ UNCHANGED <<members, deckCount, roomStatus, gamePlayers, gameState>>

(* ------------------------- turn rotation -------------------------------- *)
\* [...gamePlayers].sort((a, b) => a.seatIndex - b.seatIndex), as user ids; the
\* sort is stable, so equal seat indices stay in creation order
sortedBySeat(gp) ==
  LET n == Len(gp)
      before(v, u) == gp[v].seatIndex < gp[u].seatIndex
                        \/ (gp[v].seatIndex = gp[u].seatIndex /\ v < u)
      pos(u) == 1 + Cardinality({v \in 1..n : before(v, u)})
  IN  [i \in 1..n |-> CHOOSE u \in 1..n : pos(u) = i]

\* getNextPlayerToPlay without the passed set
getNextPlayerIgnoringPassed(gp, currentUserId, passedUserIds, skipSet) ==
  LET sorted == sortedBySeat(gp)
      idx == IndexOf(sorted, currentUserId) - 1
      cand(i) == sorted[((idx + i) % Len(sorted)) + 1]
      ok(i) == cand(i) # currentUserId /\ cand(i) \notin skipSet
      hits == {i \in 1..(Len(sorted) - 1) : ok(i)}
  IN  IF idx < 0 THEN sorted[1]
      ELSE IF hits = {} THEN NoUser
      ELSE cand(CHOOSE i \in hits : \A j \in hits : i <= j)

\* getNextPlayerToPlay without the set of seats that hold no cards
getNextPlayerIgnoringSpectators(gp, currentUserId, passedUserIds, skipSet) ==
  LET sorted == sortedBySeat(gp)
      idx == IndexOf(sorted, currentUserId) - 1
      passedSet == Range(passedUserIds)
      cand(i) == sorted[((idx + i) % Len(sorted)) + 1]
      ok(i) == cand(i) # currentUserId /\ cand(i) \notin passedSet
      hits == {i \in 1..(Len(sorted) - 1) : ok(i)}
  IN  IF idx < 0 THEN sorted[1]
      ELSE IF hits = {} THEN NoUser
      ELSE cand(CHOOSE i \in hits : \A j \in hits : i <= j)

\* NoUser stands for the null the code returns when no one can play
getNextPlayerToPlay(gp, currentUserId, passedUserIds, skipSet) ==
  LET sorted == sortedBySeat(gp)
      idx == IndexOf(sorted, currentUserId) - 1
      passedSet == Range(passedUserIds)
      cand(i) == sorted[((idx + i) % Len(sorted)) + 1]
      ok(i) == cand(i) # currentUserId /\ cand(i) \notin passedSet /\ cand(i) \notin skipSet
      hits == {i \in 1..(Len(sorted) - 1) : ok(i)}
  IN  IF idx < 0 THEN sorted[1]
      ELSE IF hits = {} THEN NoUser
      ELSE cand(CHOOSE i \in hits : \A j \in hits : i <= j)

(* ----------------------------- playCards -------------------------------- *)
\* removeSelected dropping every copy of a selected card, as removeCards does
removeSelectedAllCopies(hand, cardIds) ==
  [found |-> \A i \in 1..Len(cardIds) : Count(cardIds, cardIds[i]) <= Count(hand, cardIds[i]),
   hand |-> FilterOut(hand, Range(cardIds))]

\* the loop of lines 329-334: one copy spliced out per selected card
RECURSIVE removeSelected(_, _)
removeSelected(hand, cardIds) ==
  IF cardIds = <<>> THEN [found |-> TRUE, hand |-> hand]
  ELSE LET i == IndexOf(hand, Head(cardIds))
       IN  IF i = 0 THEN [found |-> FALSE, hand |-> hand]
           ELSE removeSelected(Splice(hand, i), Tail(cardIds))

ranksOf(cardIds) == [i \in 1..Len(cardIds) |-> Rank(cardIds[i])]
twosOf(cardIds) == FilterOut(ranksOf(cardIds), {r \in Range(ranksOf(cardIds)) : r # "2"})
nonTwosOf(cardIds) == FilterOut(ranksOf(cardIds), {"2"})

\* [...new Set(nonTwos)]: distinct ranks in order of first occurrence
RECURSIVE uniqueOf(_)
uniqueOf(s) ==
  IF s = <<>> THEN <<>>
  ELSE LET init == uniqueOf(SubSeq(s, 1, Len(s) - 1))
       IN  IF s[Len(s)] \in Range(init) THEN init ELSE Append(init, s[Len(s)])

\* playRankOf taking the rank of the first selected card
playRankOfFirstCard(cardIds) == ranksOf(cardIds)[1]

playRankOf(cardIds) ==
  LET uniqueNonTwo == uniqueOf(nonTwosOf(cardIds))
  IN  IF Len(uniqueNonTwo) > 0 THEN uniqueNonTwo[1] ELSE "2"

\* none of the throws of lines 291-355 is taken
playCardsAccepts(u, cardIds) ==
  /\ Len(cardIds) # 0
  /\ gameState.phase \notin {"none", "round_ended", "exchange"}
  /\ gameState.currentTurnUserId = u
  /\ u \in DOMAIN gamePlayers
  /\ removeSelected(gamePlayers[u].hand, cardIds).found
  /\ Len(twosOf(cardIds)) # Len(cardIds)
  /\ Len(uniqueOf(nonTwosOf(cardIds))) <= 1
  /\ gameState.lastPlayedCount > 0 =>
       /\ Len(cardIds) >= gameState.lastPlayedCount
       /\ rankValue(playRankOf(cardIds)) <= rankValue(gameState.lastPlayedRank)

\* roundEndsNow without the count of seats still holding cards
roundEndsWhenActorFinishes(playerJustFinished, playersWithCards) ==
  playerJustFinished

\* lines 373-378: the play ends the round
roundEndsNow(playerJustFinished, playersWithCards) ==
  playerJustFinished /\ playersWithCards = 1

\* clearTable only when the actor played its last card
clearTableOnlyWhenFinished(playerJustFinished, samePlayerLeadsAgain) ==
  playerJustFinished

\* clearTable only when no other seat can play
clearTableOnlyWhenAlone(playerJustFinished, samePlayerLeadsAgain) ==
  samePlayerLeadsAgain

\* line 394
clearTable(playerJustFinished, samePlayerLeadsAgain) ==
  playerJustFinished \/ samePlayerLeadsAgain

\* appendFinisher listing the actor at every play
appendFinisherAtEveryPlay(finishedOrder, u, newHand) ==
  IF u \notin Range(finishedOrder) THEN Append(finishedOrder, u) ELSE finishedOrder

\* lines 360-363
appendFinisher(finishedOrder, u, newHand) ==
  IF Len(newHand) = 0 /\ u \notin Range(finishedOrder)
  THEN Append(finishedOrder, u) ELSE finishedOrder

handLenAfter(p, u, newHand) == IF p = u THEN Len(newHand) ELSE Len(gamePlayers[p].hand)

playCards(u, cardIds) ==
  /\ playCardsAccepts(u, cardIds)
  /\ gameState.turnNumber < MaxTurn
  /\ LET newHand == removeSelected(gamePlayers[u].hand, cardIds).hand
         playRank == playRankOf(cardIds)
         passedUserIds == gameState.passedUserIds
         discardPile == gameState.discardPile \o cardIds
         finishedOrder == appendFinisher(gameState.finishedOrder, u, newHand)
         playerJustFinished == Len(newHand) = 0
         skipSpectators == {p \in DOMAIN gamePlayers : handLenAfter(p, u, newHand) = 0}
         nextUserIdRaw == getNextPlayerToPlay(gamePlayers, u, passedUserIds, skipSpectators)
         samePlayerLeadsAgain == nextUserIdRaw = NoUser
         nextUserId == IF nextUserIdRaw # NoUser THEN nextUserIdRaw ELSE u
         withCards == {p \in DOMAIN gamePlayers : handLenAfter(p, u, newHand) > 0}
         roundLoserId == IF withCards = {} THEN NoUser
                         ELSE CHOOSE p \in withCards : \A q \in withCards : p <= q
         clear == clearTable(playerJustFinished, samePlayerLeadsAgain)
     IN  /\ gamePlayers' = [gamePlayers EXCEPT ![u].hand = newHand]
         /\ IF roundEndsNow(playerJustFinished, Cardinality(withCards))
            THEN gameState' =
                   [gameState EXCEPT
                      !.phase = "round_ended",
                      !.finishedOrder = IF roundLoserId # NoUser
                                        THEN Append(finishedOrder, roundLoserId)
                                        ELSE finishedOrder,
                      !.roundLoserId = roundLoserId,
                      !.currentTurnUserId = nextUserId,
                      !.discardPile = discardPile,
                      !.lastPlayedCount = 0,
                      !.lastPlayedRank = Undefined,
                      !.lastPlayedBy = NoUser,
                      !.turnNumber = gameState.turnNumber + 1]
            ELSE gameState' =
                   [gameState EXCEPT
                      !.currentTurnUserId = nextUserId,
                      !.lastPlayedCount = IF clear THEN 0 ELSE Len(cardIds),
                      !.lastPlayedRank = IF clear THEN Undefined ELSE playRank,
                      !.lastPlayedBy = IF clear THEN NoUser ELSE u,
                      !.discardPile = IF clear THEN <<>> ELSE discardPile,
                      !.turnNumber = gameState.turnNumber + 1,
                      !.passedUserIds = IF samePlayerLeadsAgain \/ playerJustFinished
                                        THEN <<>> ELSE gameState.passedUserIds,
                      !.finishedOrder = IF Len(finishedOrder) > 0
                                        THEN finishedOrder ELSE gameState.finishedOrder]
  /\ res' = Accepted("playCards", u, cardIds)
  /\ UNCHANGED <<members, deckCount, roomStatus>>

\* a rejection that has already written the actor's hand without its first card
playCardsRejectedAfterPatch ==
  /\ TRUE = (\E u \in Users, cardIds \in Selections : ~playCardsAccepts(u, cardIds))
  /\ res' = Rejected
  /\ gamePlayers' = [p \in DOMAIN gamePlayers |->
                       [gamePlayers[p] EXCEPT !.hand =
                          IF p = gameState.currentTurnUserId /\ gamePlayers[p].hand # <<>>
                          THEN Tail(gamePlayers[p].hand) ELSE gamePlayers[p].hand]]
  /\ UNCHANGED <<members, deckCount, roomStatus, gameState>>

playCardsRejected ==
  /\ TRUE = (\E u \in Users, cardIds \in Selections : ~playCardsAccepts(u, cardIds))
  /\ res' = Rejected
  /\ UNCHANGED <<members, deckCount, roomStatus, gamePlayers, gameState>>

(* ------------------------------- pass ----------------------------------- *)
\* passAccepts without the "You must lead" check
passAcceptsWhenLeading(u) ==
  /\ gameState.phase \notin {"none", "round_ended", "exchange"}
  /\ gameState.currentTurnUserId = u

\* none of the throws of lines 439-448 is taken
passAccepts(u) ==
  /\ gameState.phase \notin {"none", "round_ended", "exchange"}
  /\ gameState.currentTurnUserId = u
  /\ gameState.lastPlayedCount # 0

\* fullPassAround counting one passer too many
fullPassAroundOffByOne(nextUserId, lastPlayedBy, passedCount, numPlayers) ==
  \/ nextUserId = NoUser
  \/ lastPlayedBy # NoUser /\ nextUserId = lastPlayedBy /\ passedCount >= numPlayers

\* lines 459 and 470: the pass clears the table
fullPassAround(nextUserId, lastPlayedBy, passedCount, numPlayers) ==
  \/ nextUserId = NoUser
  \/ lastPlayedBy # NoUser /\ nextUserId = lastPlayedBy /\ passedCount >= numPlayers - 1

pass(u) ==
  /\ passAccepts(u)
  /\ gameState.turnNumber < MaxTurn
  /\ LET passedUserIds == Append(gameState.passedUserIds, u)
         lastPlayedBy == gameState.lastPlayedBy
         numPlayers == Len(gamePlayers)
         skipSpectators == {p \in DOMAIN gamePlayers : Len(gamePlayers[p].hand) = 0}
         nextUserId == getNextPlayerToPlay(gamePlayers, u, passedUserIds, skipSpectators)
         cleared == [gameState EXCEPT
                       !.currentTurnUserId = lastPlayedBy,
                       !.lastPlayedCount = 0,
                       !.lastPlayedRank = Undefined,
                       !.lastPlayedBy = NoUser,
                       !.passedUserIds = <<>>,
                       !.turnNumber = gameState.turnNumber + 1]
     IN  IF fullPassAround(nextUserId, lastPlayedBy, Len(passedUserIds), numPlayers)
         THEN gameState' = cleared
         ELSE gameState' = [gameState EXCEPT
                              !.currentTurnUserId = nextUserId,
                              !.passedUserIds = passedUserIds,
                              !.turnNumber = gameState.turnNumber + 1]
  /\ res' = Accepted("pass", u, <<>>)
  /\ UNCHANGED <<members, deckCount, roomStatus, gamePlayers>>

passRejected ==
  /\ TRUE = (\E u \in Users : ~passAccepts(u))
  /\ res' = Rejected
  /\ UNCHANGED <<members, deckCount, roomStatus, gamePlayers, gameState>>

(* ---------------------------- restartRound ------------------------------ *)
\* restartRoundAccepts without the "Round has not ended" check
restartRoundInAnyPhase(u) ==
  IsAdmin(u) /\ gameState.phase # "none"

\* restartRoundAccepts without the "Only the host" check
restartRoundByAnyone(u) ==
  gameState.phase = "round_ended"

\* none of the throws of lines 513-531 is taken
restartRoundAccepts(u) ==
  /\ IsAdmin(u)
  /\ gameState.phase = "round_ended"

\* exchangePairsFor with the two-card obligations at n >= 3 instead of n >= 4
exchangePairsForFromThree(finishedOrder, n) ==
  IF Len(finishedOrder) >= n
  THEN IF n = 2
       THEN <<[fromUserId |-> finishedOrder[n], toUserId |-> finishedOrder[1], count |-> 1],
              [fromUserId |-> finishedOrder[1], toUserId |-> finishedOrder[n], count |-> 1]>>
       ELSE IF n >= 3
       THEN <<[fromUserId |-> finishedOrder[1], toUserId |-> finishedOrder[n], count |-> 2],
              [fromUserId |-> finishedOrder[n], toUserId |-> finishedOrder[1], count |-> 2],
              [fromUserId |-> finishedOrder[2], toUserId |-> finishedOrder[n - 1], count |-> 1],
              [fromUserId |-> finishedOrder[n - 1], toUserId |-> finishedOrder[2], count |-> 1]>>
       ELSE <<>>
  ELSE <<>>

\* exchangePairsFor with the second pair taken from the wrong end of the order
exchangePairsForWrongSecond(finishedOrder, n) ==
  IF Len(finishedOrder) >= n
  THEN IF n = 2 \/ n = 3
       THEN <<[fromUserId |-> finishedOrder[n], toUserId |-> finishedOrder[1], count |-> 1],
              [fromUserId |-> finishedOrder[1], toUserId |-> finishedOrder[n], count |-> 1]>>
       ELSE IF n >= 4
       THEN <<[fromUserId |-> finishedOrder[1], toUserId |-> finishedOrder[n], count |-> 2],
              [fromUserId |-> finishedOrder[n], toUserId |-> finishedOrder[1], count |-> 2],
              [fromUserId |-> finishedOrder[2], toUserId |-> finishedOrder[n - 2], count |-> 1],
              [fromUserId |-> finishedOrder[n - 2], toUserId |-> finishedOrder[2], count |-> 1]>>
       ELSE <<>>
  ELSE <<>>

\* lines 563-584
exchangePairsFor(finishedOrder, n) ==
  IF Len(finishedOrder) >= n
  THEN IF n = 2 \/ n = 3
       THEN <<[fromUserId |-> finishedOrder[n], toUserId |-> finishedOrder[1], count |-> 1],
              [fromUserId |-> finishedOrder[1], toUserId |-> finishedOrder[n], count |-> 1]>>
       ELSE IF n >= 4
       THEN <<[fromUserId |-> finishedOrder[1], toUserId |-> finishedOrder[n], count |-> 2],
              [fromUserId |-> finishedOrder[n], toUserId |-> finishedOrder[1], count |-> 2],
              [fromUserId |-> finishedOrder[2], toUserId |-> finishedOrder[n - 1], count |-> 1],
              [fromUserId |-> finishedOrder[n - 1], toUserId |-> finishedOrder[2], count |-> 1]>>
       ELSE <<>>
  ELSE <<>>

\* reseat moving only the players the finish order lists
reseatListedOnly(gp, finishedOrder, hands) ==
  LET sortedPlayers == sortedBySeat(gp)
  IN  [u \in 1..Len(gp) |->
         [seatIndex |-> IF u \in Range(finishedOrder) THEN IndexOf(finishedOrder, u) - 1
                        ELSE gp[u].seatIndex,
          hand |-> hands[IndexOf(sortedPlayers, u)]]]

\* reseat that always falls back to the prior seat order
reseatInPriorOrder(gp, finishedOrder, hands) ==
  LET sortedPlayers == sortedBySeat(gp)
  IN  [u \in 1..Len(gp) |->
         [seatIndex |-> IndexOf(sortedPlayers, u) - 1, hand |-> hands[IndexOf(sortedPlayers, u)]]]

\* lines 547-560: the rows as the loop of patches leaves them
reseat(gp, finishedOrder, hands) ==
  LET n == Len(gp)
      sortedPlayers == sortedBySeat(gp)
      complete == Len(finishedOrder) = n
      playerIdx(userId) == IndexOf(sortedPlayers, userId)
      userAt(i) == IF complete THEN finishedOrder[i] ELSE sortedPlayers[i]
      handAt(i) == IF complete
                   THEN (IF playerIdx(finishedOrder[i]) = 0 THEN <<>>
                         ELSE hands[playerIdx(finishedOrder[i])])
                   ELSE hands[i]
      patches(u) == {i \in 1..n : userAt(i) = u}
      last(u) == CHOOSE i \in patches(u) : \A j \in patches(u) : j <= i
  IN  [u \in 1..n |-> IF patches(u) = {} THEN gp[u]
                      ELSE [seatIndex |-> last(u) - 1, hand |-> handAt(last(u))]]

\* allCards without the discard pile
allCardsOfHands(gp, discardPile) ==
  Flatten([p \in 1..Len(gp) |-> gp[p].hand])

\* lines 540-543
allCards(gp, discardPile) ==
  Flatten([p \in 1..Len(gp) |-> gp[p].hand]) \o discardPile

\* firstLeaderId taking the first seat whatever the finish order
firstLeaderIsFirstSeat(finishedOrder, gp) ==
  sortedBySeat(gp)[1]

\* firstLeaderId taking the last entry of the finish order
firstLeaderIsLoser(finishedOrder, gp) ==
  IF Len(finishedOrder) > 0 THEN finishedOrder[Len(finishedOrder)] ELSE sortedBySeat(gp)[1]

\* line 538
firstLeaderId(finishedOrder, gp) ==
  IF Len(finishedOrder) > 0 THEN finishedOrder[1] ELSE sortedBySeat(gp)[1]

restartRound(u) ==
  /\ restartRoundAccepts(u)
  /\ gameState.turnNumber < MaxTurn
  /\ LET finishedOrder == gameState.finishedOrder
         n == Len(gamePlayers)
         leader == firstLeaderId(finishedOrder, gamePlayers)
         cards == allCards(gamePlayers, gameState.discardPile)
         exchangePairs == exchangePairsFor(finishedOrder, n)
     IN  /\ \E shuffled \in shuffleArray(cards, n) :
              gamePlayers' = reseat(gamePlayers, finishedOrder, distributeEvenly(shuffled, n))
         /\ gameState' =
              [gameState EXCEPT
                 !.phase = IF Len(exchangePairs) > 0 THEN "exchange" ELSE "play",
                 !.currentTurnUserId = leader,
                 !.turnNumber = gameState.turnNumber + 1,
                 !.discardPile = <<>>,
                 !.lastPlayedCount = 0,
                 !.lastPlayedRank = Undefined,
                 !.lastPlayedBy = NoUser,
                 !.passedUserIds = <<>>,
                 !.finishedOrder = <<>>,
                 !.roundLoserId = NoUser,
                 !.exchangePairs = exchangePairs,
                 !.exchangeSelections = <<>>,
                 !.roundLeaderId = IF Len(exchangePairs) > 0 THEN leader ELSE NoUser]
  /\ res' = Accepted("restartRound", u, <<>>)
  /\ UNCHANGED <<members, deckCount, roomStatus>>

restartRoundRejected ==
  /\ TRUE = (\E u \in Users : ~restartRoundAccepts(u))
  /\ res' = Rejected
  /\ UNCHANGED <<members, deckCount, roomStatus, gamePlayers, gameState>>

(* ----------------------- submitExchangeSelection ------------------------ *)
\* Array.prototype.find over records with a fromUserId; 0 when there is none
findFrom(recs, userId) ==
  IF \E i \in 1..Len(recs) : recs[i].fromUserId = userId
  THEN CHOOSE i \in 1..Len(recs) :
         recs[i].fromUserId = userId /\ \A j \in 1..(i - 1) : recs[j].fromUserId # userId
  ELSE 0

\* none of the throws of lines 636-654 is taken
submitExchangeSelectionAccepts(u, cardIds) ==
  /\ gameState.phase = "exchange"
  /\ findFrom(gameState.exchangePairs, u) # 0
  /\ Len(cardIds) = gameState.exchangePairs[findFrom(gameState.exchangePairs, u)].count
  /\ u \in DOMAIN gamePlayers
  /\ \A i \in 1..Len(cardIds) : cardIds[i] \in Range(gamePlayers[u].hand)

\* allIn satisfied by the selection of any one giver
allInForSomeGiver(exchangePairs, newSelections) ==
  \E k \in 1..Len(exchangePairs) :
    LET i == findFrom(newSelections, exchangePairs[k].fromUserId)
    IN  i # 0 /\ Len(newSelections[i].cardIds) = exchangePairs[k].count

\* lines 660-663
allIn(exchangePairs, newSelections) ==
  \A k \in 1..Len(exchangePairs) :
    LET i == findFrom(newSelections, exchangePairs[k].fromUserId)
    IN  i # 0 /\ Len(newSelections[i].cardIds) = exchangePairs[k].count

\* the loop of lines 667-675 over the remaining pairs
RECURSIVE applyPairs(_, _, _)
applyPairs(handsByUserId, pairs, newSelections) ==
  IF pairs = <<>> THEN handsByUserId
  ELSE LET p == Head(pairs)
           i == findFrom(newSelections, p.fromUserId)
       IN  IF i = 0 \/ Len(newSelections[i].cardIds) # p.count
           THEN applyPairs(handsByUserId, Tail(pairs), newSelections)
           ELSE LET sel == newSelections[i]
                    fromHand == handsByUserId[p.fromUserId]
                    toHand == handsByUserId[p.toUserId]
                    afterFrom == [handsByUserId EXCEPT
                                    ![p.fromUserId] = FilterOut(fromHand, Range(sel.cardIds))]
                    afterTo == [afterFrom EXCEPT ![p.toUserId] = toHand \o sel.cardIds]
                IN  applyPairs(afterTo, Tail(pairs), newSelections)

\* newSelections keeping the giver's earlier selection
newSelectionsAdditive(existing, u, cardIds) ==
  Append(existing, [fromUserId |-> u, cardIds |-> cardIds])

\* lines 656-658
newSelections(existing, u, cardIds) ==
  LET withoutMe == SelectSeq(existing, LAMBDA s : s.fromUserId # u)
  IN  Append(withoutMe, [fromUserId |-> u, cardIds |-> cardIds])

submitExchangeSelection(u, cardIds) ==
  /\ submitExchangeSelectionAccepts(u, cardIds)
  /\ gameState.turnNumber < MaxTurn
  /\ LET exchangePairs == gameState.exchangePairs
         selections == newSelections(gameState.exchangeSelections, u, cardIds)
     IN  IF allIn(exchangePairs, selections)
         THEN LET handsByUserId ==
                    applyPairs([p \in DOMAIN gamePlayers |-> gamePlayers[p].hand],
                               exchangePairs, selections)
              IN  /\ gamePlayers' = [p \in DOMAIN gamePlayers |->
                                       [gamePlayers[p] EXCEPT !.hand = handsByUserId[p]]]
                  /\ gameState' =
                       [gameState EXCEPT
                          !.phase = "play",
                          !.currentTurnUserId = gameState.roundLeaderId,
                          !.turnNumber = gameState.turnNumber + 1,
                          !.exchangePairs = <<>>,
                          !.exchangeSelections = <<>>,
                          !.roundLeaderId = NoUser]
         ELSE /\ gameState' = [gameState EXCEPT !.exchangeSelections = selections]
              /\ UNCHANGED gamePlayers
  /\ res' = Accepted("submitExchangeSelection", u, cardIds)
  /\ UNCHANGED <<members, deckCount, roomStatus>>

submitExchangeSelectionRejected ==
  /\ TRUE = (\E u \in Users, cardIds \in Selections : ~submitExchangeSelectionAccepts(u, cardIds))
  /\ res' = Rejected
  /\ UNCHANGED <<members, deckCount, roomStatus, gamePlayers, gameState>>

(* -------------------------- getGameByRoomCode --------------------------- *)
\* the value the query returns to the player viewer: the players list keyed by
\* user id, the gameStates row as stored, and the totals
getGameByRoomCode(viewer) ==
  LET totalCards == Len(Flatten([p \in 1..Len(gamePlayers) |-> gamePlayers[p].hand]))
  IN  [players |-> [p \in DOMAIN gamePlayers |->
                      [userId |-> p,
                       seatIndex |-> gamePlayers[p].seatIndex,
                       handCount |-> Len(gamePlayers[p].hand),
                       hand |-> IF p = viewer THEN gamePlayers[p].hand ELSE Undefined,
                       isCurrentUser |-> p = viewer]],
       gameState |-> gameState,
       deckCount |-> IF totalCards = 0 THEN 1 ELSE (totalCards + 51) \div 52,
       totalCards |-> totalCards,
       isHost |-> IsAdmin(viewer)]

(* --------------------------- specification ------------------------------ *)
Next ==
  \/ \E u \in Users : startGame(u)
  \/ startGameRejected
  \/ \E u \in Users, cardIds \in Selections : playCards(u, cardIds)
  \/ playCardsRejected
  \/ \E u \in Users : pass(u)
  \/ passRejected
  \/ \E u \in Users : restartRound(u)
  \/ restartRoundRejected
  \/ \E u \in Users, cardIds \in Selections : submitExchangeSelection(u, cardIds)
  \/ submitExchangeSelectionRejected

Spec == Init /\ [][Next]_vars

(* ---------------- restarts from the end of any round --------------------- *)
\* the sequences of k distinct elements of S
RECURSIVE Arrangements(_, _)
Arrangements(S, k) ==
  IF k = 0 THEN {<<>>}
  ELSE UNION {{<<x>> \o t : t \in Arrangements(S \ {x}, k - 1)} : x \in S}

\* what is left of the pool when a round ends: the loser's hand and the
\* discard pile, which holds at least the last play.  The pools explored are
\* the first P cards of the sorted deck, of which the loser holds the first h.
RoundEndPools(decks) ==
  LET sorted == BagSeq(BagOf(buildDeck(decks)))
  IN  {<<SubSeq(sorted, 1, hp[1]), SubSeq(sorted, hp[1] + 1, hp[2])>> :
         hp \in {<<1, 2>>, <<1, 3>>, <<2, 4>>}}

\* the seatings explored: the creation order, and the creation order moved on
\* by one seat
Seatings(n) == {[u \in 1..n |-> (u - 1 + r) % n] : r \in 0..1}

\* A game as the round-ending branch of playCards leaves it (lines 378-392), in
\* any round: the seats are any seating earlier restarts have made, the finish
\* order lists the seats that emptied their hand and then the loser, the only
\* seat that holds cards; a seat that was dealt no card, because the pool had
\* shrunk below the number of seats, is not listed.  The loser may have passed
\* on the last standing play; the turn then rests with the last finisher.
RoundEnded ==
  /\ members \in 2..MaxPlayers
  /\ deckCount \in DeckCounts
  /\ roomStatus = "in_progress"
  /\ \E seating \in Seatings(members) :
     \E k \in 2..members : \E finishedOrder \in Arrangements(1..members, k) :
     \E pool \in RoundEndPools(deckCount) : \E loserPassed \in BOOLEAN :
       /\ gamePlayers = [u \in 1..members |->
                           [seatIndex |-> seating[u],
                            hand |-> IF u = finishedOrder[k] THEN pool[1] ELSE <<>>]]
       /\ gameState = [NoGameState EXCEPT
                          !.phase = "round_ended",
                          !.currentTurnUserId = IF loserPassed THEN finishedOrder[k - 1]
                                                ELSE finishedOrder[k],
                          !.passedUserIds = IF loserPassed THEN <<finishedOrder[k]>> ELSE <<>>,
                          !.turnNumber = MaxTurn - 1,
                          !.discardPile = pool[2],
                          !.finishedOrder = finishedOrder,
                          !.roundLoserId = finishedOrder[k]]
  /\ res = NoRequest

RestartNext ==
  \/ \E u \in Users : restartRound(u)
  \/ restartRoundRejected

RestartSpec == RoundEnded /\ [][RestartNext]_vars

(* ------------- distributeEvenly on any cards and any count --------------- *)
\* longest deck argument explored
MaxCards == 5

\* the card sequences of at most k cards
RECURSIVE CardSeqs(_)
CardSeqs(k) ==
  IF k = 0 THEN {<<>>}
  ELSE CardSeqs(k - 1) \cup {Append(s, c) : s \in {t \in CardSeqs(k - 1) : Len(t) = k - 1},
                                            c \in CardIds}

\* A call of distributeEvenly about to be made: the deck argument is kept in
\* gameState.discardPile and numPlayers in members.  The arguments are any
\* card sequence and any count of at least 1, as the function itself puts no
\* condition on them.
DeckToCut ==
  /\ members \in 1..MaxPlayers
  /\ deckCount = 1
  /\ roomStatus = "in_progress"
  /\ gamePlayers = <<>>
  /\ \E deck \in CardSeqs(MaxCards) : gameState = [NoGameState EXCEPT !.discardPile = deck]
  /\ res = NoRequest

\* the call: the hands returned become the hands of the seats 0..numPlayers-1
distribute ==
  /\ res = NoRequest
  /\ LET hands == distributeEvenly(gameState.discardPile, members)
     IN  gamePlayers' = [i \in 1..Len(hands) |-> [seatIndex |-> i - 1, hand |-> hands[i]]]
  /\ res' = Accepted("distributeEvenly", NoUser, gameState.discardPile)
  /\ UNCHANGED <<members, deckCount, roomStatus, gameState>>

DistributeSpec == DeckToCut /\ [][distribute]_vars

(* ------------------- games that go on after a first round ---------------- *)
\* A game as the round-ending branch of playCards leaves it (lines 378-392) at
\* the end of its first round: the seats are those startGame gave, every seat
\* was dealt cards and so is listed in the finish order, the loser last, and
\* the loser is the only seat that holds cards.  Of the pool only the loser's
\* hand and the discard pile are left; with two seats nothing is ever taken
\* off the pile, so the games kept have three seats or more.  The loser has
\* not passed on the last play and is the next seat in turn.  The counter of
\* accepted intents is set back to 0, so that MaxTurn further intents are
\* explored from here.
FirstRoundEnded ==
  /\ members \in 3..MaxPlayers
  /\ deckCount \in DeckCounts
  /\ members * MaxExchangeCount <= Len(buildDeck(deckCount))
  /\ roomStatus = "in_progress"
  /\ \E finishedOrder \in Arrangements(1..members, members) :
     \E pool \in RoundEndPools(1) \cup RoundEndPools(deckCount) :
       /\ gamePlayers = [u \in 1..members |->
                           [seatIndex |-> u - 1,
                            hand |-> IF u = finishedOrder[members] THEN pool[1] ELSE <<>>]]
       /\ gameState = [NoGameState EXCEPT
                          !.phase = "round_ended",
                          !.currentTurnUserId = finishedOrder[members],
                          !.discardPile = pool[2],
                          !.finishedOrder = finishedOrder,
                          !.roundLoserId = finishedOrder[members]]
  /\ res = NoRequest

\* a room in the lobby, or a game at the end of its first round
AnyRoundSpec == (Init \/ FirstRoundEnded) /\ [][Next]_vars

TypeOK ==
  /\ gameState.phase \in {"none", "play", "round_ended", "exchange"}
  /\ gameState.turnNumber \in 0..MaxTurn

(* ======================= properties of the engine ======================= *)
InGame == gameState.phase # "none"

handOf(u) == gamePlayers[u].hand

\* every card held or on the discard pile
cardsInPlay == Flatten([p \in 1..Len(gamePlayers) |-> handOf(p)]) \o gameState.discardPile

seatsWithCards == {p \in DOMAIN gamePlayers : Len(handOf(p)) > 0}

tableClear == gameState.lastPlayedCount = 0

standingPlayAbsent ==
  /\ gameState.lastPlayedCount = 0
  /\ gameState.lastPlayedRank = Undefined
  /\ gameState.lastPlayedBy = NoUser

\* s is contained in hand, counting multiplicity
containedIn(s, hand) == \A c \in Range(s) : Count(s, c) <= Count(hand, c)

\* C1: at every state of a game, hand sizes plus discard pile size equal
\* deckCount x (cards of one deck), and no card identifier occurs more often
\* in hands plus discard than in the assembled deck pool.
C1_CardConservation ==
  InGame =>
    /\ Len(cardsInPlay) = Len(buildDeck(deckCount))
    /\ \A c \in CardIds : Count(cardsInPlay, c) <= Count(buildDeck(deckCount), c)

\* the strength order the rules give, strongest first ("T" is the ten)
C2_Strength == <<"2", "A", "K", "Q", "J", "T", "9", "8", "7", "6", "5", "4", "3">>

C2_RealRanks(sel) == {Rank(sel[i]) : i \in 1..Len(sel)} \ {"2"}

C2_Legal(u, sel) ==
  /\ gameState.phase = "play"
  /\ gameState.currentTurnUserId = u
  /\ sel # <<>>
  /\ containedIn(sel, handOf(u))
  /\ Cardinality(C2_RealRanks(sel)) = 1
  /\ \/ tableClear
     \/ /\ Len(sel) >= gameState.lastPlayedCount
        /\ \A r \in C2_RealRanks(sel) :
             IndexOf(C2_Strength, r) <= IndexOf(C2_Strength, gameState.lastPlayedRank)

\* C2: playCards is accepted if and only if phase is play, the actor is the
\* current-turn seat, the selection is non-empty and contained in the actor's
\* hand counting multiplicity, it has exactly one distinct rank once the 2s
\* are stripped, and the table is clear or the selection is at least as long
\* as the standing play and its rank at least as strong.
C2_PlayAcceptedIffLegal ==
  \A u \in Users, sel \in Selections : playCardsAccepts(u, sel) <=> C2_Legal(u, sel)

\* a standing play that some selection of the current seat meets and that
\* another selection of the same size, held by that seat, is too weak for
C2_Witness ==
  /\ gameState.phase = "play"
  /\ gameState.lastPlayedCount > 0
  /\ \E sel \in Selections : playCardsAccepts(gameState.currentTurnUserId, sel)
  /\ \E sel \in Selections :
       /\ containedIn(sel, handOf(gameState.currentTurnUserId))
       /\ Len(sel) >= gameState.lastPlayedCount
       /\ Cardinality(C2_RealRanks(sel)) = 1
       /\ ~playCardsAccepts(gameState.currentTurnUserId, sel)

\* C3: a rejected intent leaves the round state and every hand and seat as
\* they were: no step that ends in a rejection changes anything but the
\* response.
C3_RejectionChangesNothing ==
  [][~res'.ok => UNCHANGED <<gamePlayers, gameState, roomStatus, members, deckCount>>]_vars

\* a request was rejected while a play stands and some seat has passed
C3_Witness ==
  /\ ~res.ok
  /\ gameState.phase = "play"
  /\ gameState.lastPlayedCount > 0
  /\ gameState.passedUserIds # <<>>

holdersIn(gp) == {p \in DOMAIN gp : Len(gp[p].hand) > 0}

standingPlayAbsentIn(gs) ==
  gs.lastPlayedCount = 0 /\ gs.lastPlayedRank = Undefined /\ gs.lastPlayedBy = NoUser

\* C4: an accepted playCards sets phase to round_ended if and only if exactly
\* one seat holds cards after the play; that seat is then the round loser and
\* the last entry of the finish order, and the standing play is cleared.  No
\* other step sets phase to round_ended.
C4_RoundEndDetection ==
  [][/\ res'.op = "playCards" =>
          /\ gameState'.phase = "round_ended" <=> Cardinality(holdersIn(gamePlayers')) = 1
          /\ gameState'.phase = "round_ended" =>
               /\ holdersIn(gamePlayers') = {gameState'.roundLoserId}
               /\ gameState'.finishedOrder # <<>>
               /\ gameState'.finishedOrder[Len(gameState'.finishedOrder)]
                    = gameState'.roundLoserId
               /\ standingPlayAbsentIn(gameState')
     /\ (gameState'.phase = "round_ended" /\ gameState.phase # "round_ended")
          => res'.op = "playCards"
    ]_vars

\* a round of three or more seats has just been ended by a play
C4_Witness ==
  /\ gameState.phase = "round_ended"
  /\ res.op = "playCards"
  /\ members >= 3
  /\ Len(gameState.finishedOrder) = members

\* C5: a seat that has passed is not the current-turn seat as long as it is in
\* the passed set; an accepted pass puts its actor into the passed set unless
\* the pass clears the table; and a seat leaves the passed set only when the
\* set is emptied together with the standing play.
C5_PassedSeatSkipped ==
  [][/\ gameState'.currentTurnUserId \notin Range(gameState'.passedUserIds)
     /\ res'.op = "pass" =>
          \/ res'.user \in Range(gameState'.passedUserIds)
          \/ gameState'.passedUserIds = <<>> /\ standingPlayAbsentIn(gameState')
     /\ Range(gameState.passedUserIds) \ Range(gameState'.passedUserIds) # {} =>
          gameState'.passedUserIds = <<>> /\ gameState'.lastPlayedCount = 0
    ]_vars

\* after a seat has finished, a seat passed, the table still stands and the
\* turn went on to another seat
C5_Witness ==
  /\ gameState.phase = "play"
  /\ res.op = "pass"
  /\ res.user \in Range(gameState.passedUserIds)
  /\ gameState.finishedOrder # <<>>
  /\ gameState.lastPlayedCount > 0

C6_StandingPlayExists ==
  /\ gameState.lastPlayedCount > 0
  /\ gameState.lastPlayedRank # Undefined
  /\ gameState.lastPlayedBy # NoUser

\* C6: pass is accepted if and only if phase is play, the actor is the
\* current-turn seat and a standing play exists; a seat required to lead can
\* never pass.
C6_PassAcceptedIff ==
  \A u \in Users :
    passAccepts(u) <=>
      (gameState.phase = "play" /\ gameState.currentTurnUserId = u /\ C6_StandingPlayExists)

\* a pass was accepted and the seat now to play may pass as well
C6_Witness ==
  /\ res.op = "pass"
  /\ gameState.phase = "play"
  /\ passAccepts(gameState.currentTurnUserId)
  /\ \E u \in Users : u # gameState.currentTurnUserId /\ ~passAccepts(u)

\* seats after the actor in ascending seat order, wrapping around: how far
\* seat s is from the actor
C7_Distance(s, actor) ==
  (gamePlayers[s].seatIndex - gamePlayers[actor].seatIndex + Len(gamePlayers)) % Len(gamePlayers)

C7_Eligible(actor) ==
  {s \in DOMAIN gamePlayers :
     /\ s # actor
     /\ s \notin Range(gameState.passedUserIds) \cup {actor}
     /\ Len(handOf(s)) > 0}

C7_AuthorIsNextEligible(actor) ==
  /\ gameState.lastPlayedBy \in C7_Eligible(actor)
  /\ \A s \in C7_Eligible(actor) :
       C7_Distance(gameState.lastPlayedBy, actor) <= C7_Distance(s, actor)

C7_TableClearedFor(author, gs) ==
  standingPlayAbsentIn(gs) /\ gs.passedUserIds = <<>> /\ gs.currentTurnUserId = author

\* C7: when an accepted pass leaves no eligible seat, or makes the standing
\* play's author the next eligible seat with (player count - 1) distinct
\* passers, the table clears and the author becomes the current-turn seat;
\* with 2 players every accepted pass does so.
C7_FullPassAround ==
  [][res'.op = "pass" =>
       LET actor == res'.user
           passers == Range(gameState.passedUserIds) \cup {actor}
       IN  /\ (\/ C7_Eligible(actor) = {}
               \/ /\ C7_AuthorIsNextEligible(actor)
                  /\ Cardinality(passers) = Len(gamePlayers) - 1)
              => C7_TableClearedFor(gameState.lastPlayedBy, gameState')
           /\ Len(gamePlayers) = 2 => C7_TableClearedFor(gameState.lastPlayedBy, gameState')
    ]_vars

\* with three or more seats a pass has just cleared the table
C7_Witness ==
  /\ res.op = "pass"
  /\ members >= 3
  /\ gameState.phase = "play"
  /\ standingPlayAbsent
  /\ gameState.passedUserIds = <<>>

C8_Twos(sel) == Cardinality({i \in 1..Len(sel) : Rank(sel[i]) = "2"})

\* C8: a selection of rank-2 cards only is rejected; a selection of k rank-2
\* cards and m >= 1 cards of one other rank r, when accepted without clearing
\* the table, is recorded as the standing play (k+m, r, actor); the standing
\* rank is never 2.
C8_WildcardPlays ==
  /\ [](\A u \in Users, sel \in Selections :
          (sel # <<>> /\ C8_Twos(sel) = Len(sel)) => ~playCardsAccepts(u, sel))
  /\ [](gameState.lastPlayedRank # "2")
  /\ [][(res'.op = "playCards" /\ gameState'.lastPlayedCount > 0) =>
          /\ gameState'.lastPlayedCount = Len(res'.cardIds)
          /\ C2_RealRanks(res'.cardIds) = {gameState'.lastPlayedRank}
          /\ gameState'.lastPlayedBy = res'.user
       ]_vars

\* a play of two 2s and one card of another rank stands on the table
C8_Witness ==
  /\ res.op = "playCards"
  /\ C8_Twos(res.cardIds) = 2
  /\ Len(res.cardIds) = 3
  /\ gameState.lastPlayedCount = 3
  /\ gameState.lastPlayedBy = res.user

C9_Complete(finishedOrder) ==
  Len(finishedOrder) = Len(gamePlayers) /\ Range(finishedOrder) = DOMAIN gamePlayers

\* C9: restartRound with 2 or 3 players and a complete finish order with first
\* entry W and last entry L produces exactly the obligations
\* [(L gives W, 1), (W gives L, 1)] and sets phase to exchange.
C9_RestartPairsSmall ==
  [][(res'.op = "restartRound" /\ Len(gamePlayers) \in {2, 3}
        /\ C9_Complete(gameState.finishedOrder)) =>
       LET W == gameState.finishedOrder[1]
           L == gameState.finishedOrder[Len(gameState.finishedOrder)]
       IN  /\ gameState'.exchangePairs =
                <<[fromUserId |-> L, toUserId |-> W, count |-> 1],
                  [fromUserId |-> W, toUserId |-> L, count |-> 1]>>
           /\ gameState'.phase = "exchange"
    ]_vars

\* a round of three seats was restarted into the exchange phase
C9_Witness ==
  /\ res.op = "restartRound"
  /\ members = 3
  /\ gameState.phase = "exchange"
  /\ Len(gameState.exchangePairs) = 2

\* C10: restartRound with N >= 4 players and a complete finish order f produces
\* exactly the obligations [(f[0] gives f[N-1], 2), (f[N-1] gives f[0], 2),
\* (f[1] gives f[N-2], 1), (f[N-2] gives f[1], 1)] and sets phase to exchange.
C10_RestartPairsLarge ==
  [][(res'.op = "restartRound" /\ Len(gamePlayers) >= 4
        /\ C9_Complete(gameState.finishedOrder)) =>
       LET f == gameState.finishedOrder
           N == Len(gamePlayers)
       IN  /\ gameState'.exchangePairs =
                <<[fromUserId |-> f[1], toUserId |-> f[N], count |-> 2],
                  [fromUserId |-> f[N], toUserId |-> f[1], count |-> 2],
                  [fromUserId |-> f[2], toUserId |-> f[N - 1], count |-> 1],
                  [fromUserId |-> f[N - 1], toUserId |-> f[2], count |-> 1]>>
           /\ gameState'.phase = "exchange"
    ]_vars

\* a round of four seats was restarted into the exchange phase
C10_Witness ==
  /\ res.op = "restartRound"
  /\ members >= 4
  /\ gameState.phase = "exchange"
  /\ Len(gameState.exchangePairs) = 4

\* C11: restartRound is accepted only when the actor is the room's
\* administrator and the phase is round_ended: every accepted restart has an
\* administrator as actor and starts in phase round_ended; while the phase is
\* play or exchange, or for an actor that is not the administrator, the request
\* is refused, and the refusal changes no hand, seat or round-state field.
C11_RestartOnlyByAdminAtRoundEnd ==
  /\ [](\A u \in Users :
          (~IsAdmin(u) \/ gameState.phase \in {"play", "exchange"}) => ~restartRoundAccepts(u))
  /\ [][res'.op = "restartRound" =>
          IsAdmin(res'.user) /\ gameState.phase = "round_ended"]_vars
  /\ [][restartRoundRejected => UNCHANGED <<gamePlayers, gameState>>]_vars

\* the administrator has restarted a round in a room that has other members,
\* and now, in the exchange phase, may not restart again
C11_Witness ==
  /\ res.op = "restartRound"
  /\ IsAdmin(res.user)
  /\ \E u \in Users : ~IsAdmin(u)
  /\ gameState.phase = "exchange"
  /\ \A u \in Users : ~restartRoundAccepts(u)

\* the giver's obligation asks for Len(sel) cards and sel is drawn from the
\* giver's hand, no card named more often than the giver holds it
C12_Valid(u, sel) ==
  /\ gameState.phase = "exchange"
  /\ \E k \in 1..Len(gameState.exchangePairs) : gameState.exchangePairs[k].fromUserId = u
  /\ \A k \in 1..Len(gameState.exchangePairs) :
       (gameState.exchangePairs[k].fromUserId = u
          /\ \A j \in 1..(k - 1) : gameState.exchangePairs[j].fromUserId # u)
         => Len(sel) = gameState.exchangePairs[k].count
  /\ containedIn(sel, handOf(u))

\* C12: submitExchangeSelection is accepted if and only if the phase is
\* exchange, the actor is the giver of some obligation, the selection has as
\* many cards as that obligation counts, and the selection is drawn from the
\* giver's current hand counting multiplicity.
C12_SubmissionAcceptedIffValid ==
  \A u \in Users, sel \in Selections :
    submitExchangeSelectionAccepts(u, sel) <=> C12_Valid(u, sel)

\* the selection giver g has on record once actor has submitted sel
C13_SelectionOf(g, actor, sel) ==
  IF g = actor THEN sel
  ELSE LET i == findFrom(gameState.exchangeSelections, g)
       IN  IF i = 0 THEN <<>> ELSE gameState.exchangeSelections[i].cardIds

\* how often card c is given away by seat s, and handed to seat s
C13_Given(s, c, actor, sel) ==
  IF \E k \in 1..Len(gameState.exchangePairs) : gameState.exchangePairs[k].fromUserId = s
  THEN Count(C13_SelectionOf(s, actor, sel), c) ELSE 0

C13_Received(s, c, actor, sel) ==
  LET givers == {g \in DOMAIN gamePlayers :
                   \E k \in 1..Len(gameState.exchangePairs) :
                     /\ gameState.exchangePairs[k].fromUserId = g
                     /\ gameState.exchangePairs[k].toUserId = s}
      RECURSIVE Sum(_)
      Sum(G) == IF G = {} THEN 0
                ELSE LET g == CHOOSE g \in G : TRUE
                     IN  Count(C13_SelectionOf(g, actor, sel), c) + Sum(G \ {g})
  IN  Sum(givers)

C13_Completes == res'.op = "submitExchangeSelection" /\ gameState'.phase = "play"

\* C13: when the last outstanding obligation is submitted, every seat's new
\* hand is, as a multiset, its old hand minus the cards it selected to give
\* plus the cards selected for it by its paired giver; so every hand keeps its
\* size and the cards of all hands together stay the same.
C13_ExactSwap ==
  [][C13_Completes =>
       /\ \A s \in DOMAIN gamePlayers : \A c \in CardIds :
            Count(gamePlayers'[s].hand, c) =
              Count(gamePlayers[s].hand, c) - C13_Given(s, c, res'.user, res'.cardIds)
                + C13_Received(s, c, res'.user, res'.cardIds)
       /\ \A s \in DOMAIN gamePlayers : Len(gamePlayers'[s].hand) = Len(gamePlayers[s].hand)
       /\ \A c \in CardIds :
            Count(Flatten([p \in 1..Len(gamePlayers) |-> gamePlayers'[p].hand]), c) =
              Count(Flatten([p \in 1..Len(gamePlayers) |-> gamePlayers[p].hand]), c)
    ]_vars

\* the per-seat part for one deck, where no card identifier occurs twice
C13_ExactSwapOneDeck ==
  [][(C13_Completes /\ deckCount = 1) =>
       /\ \A s \in DOMAIN gamePlayers : \A c \in CardIds :
            Count(gamePlayers'[s].hand, c) =
              Count(gamePlayers[s].hand, c) - C13_Given(s, c, res'.user, res'.cardIds)
                + C13_Received(s, c, res'.user, res'.cardIds)
    ]_vars

\* the recorded selections of giver g
C14_RecordsOf(gs, g) ==
  {i \in 1..Len(gs.exchangeSelections) : gs.exchangeSelections[i].fromUserId = g}

\* an accepted submission that leaves the exchange open
C14_Pending == res'.op = "submitExchangeSelection" /\ gameState'.phase = "exchange"

\* C14: in phase exchange, before all obligations are met, a giver that
\* submits the selection it already has on record leaves the hands and the
\* round state as they were, up to the order of the recorded selections (and
\* exactly as they were when its record was the latest); a giver that submits
\* another selection has it replace the earlier one, the other givers' records
\* stay, and at no time is more than one selection recorded for a giver.
C14_ResubmissionOverwrites ==
  /\ [](\A g \in Users : Cardinality(C14_RecordsOf(gameState, g)) <= 1)
  /\ [][C14_Pending =>
          LET u == res'.user
              before == gameState.exchangeSelections
              after == gameState'.exchangeSelections
              mine == [fromUserId |-> u, cardIds |-> res'.cardIds]
          IN  /\ gamePlayers' = gamePlayers
              /\ [gameState' EXCEPT !.exchangeSelections = <<>>]
                   = [gameState EXCEPT !.exchangeSelections = <<>>]
              /\ Range(after) = {s \in Range(before) : s.fromUserId # u} \cup {mine}
              /\ mine \in Range(before) => Range(after) = Range(before)
              /\ (before # <<>> /\ before[Len(before)] = mine) => gameState' = gameState
       ]_vars

\* a giver's selection is on record, the exchange is still open, and the same
\* giver may submit again, the same selection or another one
C14_Witness ==
  /\ res.op = "submitExchangeSelection"
  /\ gameState.phase = "exchange"
  /\ gameState.turnNumber < MaxTurn
  /\ [fromUserId |-> res.user, cardIds |-> res.cardIds] \in Range(gameState.exchangeSelections)
  /\ submitExchangeSelectionAccepts(res.user, res.cardIds)
  /\ \E sel \in Selections :
       sel # res.cardIds /\ submitExchangeSelectionAccepts(res.user, sel)

\* C15: when the exchange completes, the phase becomes play, the obligations,
\* the recorded selections and the stored round leader are cleared, the table
\* is clear, and the current-turn seat is the first finisher of the previous
\* round: the seat restartRound stored as round leader, which no submission
\* changes while the exchange is open.
C15_ExchangeCompletion ==
  /\ [][(res'.op = "restartRound" /\ gameState'.phase = "exchange") =>
          /\ gameState.finishedOrder # <<>>
          /\ gameState'.roundLeaderId = gameState.finishedOrder[1]
          /\ gameState'.currentTurnUserId = gameState.finishedOrder[1]
       ]_vars
  /\ [][(gameState.phase = "exchange" /\ gameState'.phase = "exchange") =>
          gameState'.roundLeaderId = gameState.roundLeaderId]_vars
  /\ [][(gameState.phase = "exchange" /\ gameState'.phase # "exchange") =>
          /\ res'.op = "submitExchangeSelection"
          /\ gameState'.phase = "play"
          /\ gameState'.exchangePairs = <<>>
          /\ gameState'.exchangeSelections = <<>>
          /\ gameState'.roundLeaderId = NoUser
          /\ standingPlayAbsentIn(gameState')
          /\ gameState'.passedUserIds = <<>>
          /\ gameState'.currentTurnUserId = gameState.roundLeaderId
       ]_vars

\* an exchange among three seats has completed and the first finisher of the
\* previous round, who is not the seat created first, is to lead
C15_Witness ==
  /\ res.op = "submitExchangeSelection"
  /\ gameState.phase = "play"
  /\ members >= 3
  /\ gameState.currentTurnUserId # 1
  /\ gamePlayers[gameState.currentTurnUserId].seatIndex = 0

\* the snapshot names card c as one of seat u's cards: in u's entry of the
\* players list, or in a selection recorded for u while the exchange is open
\* (the selected cards stay in the giver's hand until the exchange completes)
C16_Names(snapshot, u, c) ==
  \/ /\ snapshot.players[u].hand # Undefined
     /\ c \in Range(snapshot.players[u].hand)
  \/ /\ snapshot.gameState.phase = "exchange"
     /\ \E i \in 1..Len(snapshot.gameState.exchangeSelections) :
          /\ snapshot.gameState.exchangeSelections[i].fromUserId = u
          /\ c \in Range(snapshot.gameState.exchangeSelections[i].cardIds)

\* C16: the snapshot getGameByRoomCode returns to a viewer, the returned round
\* state during the exchange phase included, reveals of the other players'
\* hands only their counts: it names no card that another player holds as that
\* player's card, so exchanging the identifiers the others hold for others
\* leaves the snapshot as it is.
C16_HandConfidentiality ==
  \A viewer \in DOMAIN gamePlayers : \A u \in DOMAIN gamePlayers \ {viewer} :
    \A c \in Range(handOf(u)) : ~C16_Names(getGameByRoomCode(viewer), u, c)

\* the players list alone keeps the other players' hands out of the snapshot
C16_PlayersListHidesHands ==
  \A viewer \in DOMAIN gamePlayers : \A u \in DOMAIN gamePlayers :
    LET entry == getGameByRoomCode(viewer).players[u]
    IN  /\ entry.handCount = Len(handOf(u))
        /\ entry.hand = IF u = viewer THEN handOf(u) ELSE Undefined

\* C17: the turn counter never decreases; every accepted play, pass, restart
\* and exchange submission, a submission that does not yet complete the
\* exchange included, increases it by exactly 1; a rejected intent leaves it
\* unchanged.
C17_TurnCounter ==
  [][/\ gameState'.turnNumber >= gameState.turnNumber
     /\ res'.op \in {"playCards", "pass", "restartRound", "submitExchangeSelection"} =>
          gameState'.turnNumber = gameState.turnNumber + 1
     /\ ~res'.ok => gameState'.turnNumber = gameState.turnNumber
    ]_vars

\* the same without the submissions that leave the exchange open
C17_TurnCounterButPendingSubmission ==
  [][/\ gameState'.turnNumber >= gameState.turnNumber
     /\ (res'.op \in {"playCards", "pass", "restartRound", "submitExchangeSelection"}
           /\ ~C14_Pending) =>
          gameState'.turnNumber = gameState.turnNumber + 1
     /\ (~res'.ok \/ C14_Pending) => gameState'.turnNumber = gameState.turnNumber
    ]_vars

\* an accepted play that does not end the round
C18_PlayGoesOn == res'.op = "playCards" /\ gameState'.phase = "play"

\* the seats other than the actor that have not passed and hold at least one
\* card after the play
C18_Eligible(actor) ==
  {s \in DOMAIN gamePlayers :
     /\ s # actor
     /\ s \notin Range(gameState.passedUserIds)
     /\ Len(gamePlayers'[s].hand) > 0}

\* C18: after an accepted play that does not end the round and for which an
\* eligible seat exists, the new current-turn seat is the first seat after the
\* actor in ascending seat order, wrapping around, that is not the actor, is
\* not in the passed set and holds at least one card after the play.
C18_NextSeatAfterPlay ==
  [][(C18_PlayGoesOn /\ C18_Eligible(res'.user) # {}) =>
       /\ gameState'.currentTurnUserId \in C18_Eligible(res'.user)
       /\ \A s \in C18_Eligible(res'.user) :
            C7_Distance(gameState'.currentTurnUserId, res'.user) <= C7_Distance(s, res'.user)
    ]_vars

\* a play went on and the turn skipped the seat right after the actor
C18_Witness ==
  /\ res.op = "playCards"
  /\ gameState.phase = "play"
  /\ gameState.currentTurnUserId # res.user
  /\ (gamePlayers[gameState.currentTurnUserId].seatIndex
        - gamePlayers[res.user].seatIndex + Len(gamePlayers)) % Len(gamePlayers) >= 2

\* C19: after an accepted play that does not end the round, if no other seat
\* is eligible (every other seat has passed or holds no cards), the table
\* clears and the actor itself is the current-turn seat.
C19_SameSeatLeadsAgain ==
  [][(C18_PlayGoesOn /\ C18_Eligible(res'.user) = {}) =>
       /\ standingPlayAbsentIn(gameState')
       /\ gameState'.passedUserIds = <<>>
       /\ gameState'.currentTurnUserId = res'.user
    ]_vars

\* the actor of a play that went on leads again and still holds cards
C19_Witness ==
  /\ res.op = "playCards"
  /\ gameState.phase = "play"
  /\ gameState.currentTurnUserId = res.user
  /\ Len(handOf(res.user)) > 0
  /\ standingPlayAbsent

\* C20: an accepted play that does not end the round has this effect: if the
\* actor did not finish and another seat is eligible, the discard pile is the
\* old discard pile followed by the selection, the standing play is
\* (selection size, effective rank, actor) and the passed set is unchanged; if
\* the actor finished or no other seat is eligible, the standing play is
\* absent and the passed set is empty.
C20_EffectOfPlay ==
  [][C18_PlayGoesOn =>
       IF Len(gamePlayers'[res'.user].hand) > 0 /\ C18_Eligible(res'.user) # {}
       THEN /\ gameState'.discardPile = gameState.discardPile \o res'.cardIds
            /\ gameState'.lastPlayedCount = Len(res'.cardIds)
            /\ C2_RealRanks(res'.cardIds) = {gameState'.lastPlayedRank}
            /\ gameState'.lastPlayedBy = res'.user
            /\ gameState'.passedUserIds = gameState.passedUserIds
       ELSE /\ standingPlayAbsentIn(gameState')
            /\ gameState'.passedUserIds = <<>>
    ]_vars

\* a play has finished its actor while two other seats still hold cards, so
\* the table was cleared for the next seat
C20_Witness ==
  /\ res.op = "playCards"
  /\ gameState.phase = "play"
  /\ Len(handOf(res.user)) = 0
  /\ gameState.currentTurnUserId # res.user
  /\ standingPlayAbsent
  /\ Cardinality(seatsWithCards) >= 2

\* C21: an accepted play removes exactly the selected cards from the actor's
\* hand, one copy per selected card (new hand = old hand minus the selection
\* as a multiset), and leaves every other player's hand and every seat index
\* unchanged.
C21_PlayRemovesSelection ==
  [][res'.op = "playCards" =>
       /\ DOMAIN gamePlayers' = DOMAIN gamePlayers
       /\ \A c \in CardIds :
            Count(gamePlayers'[res'.user].hand, c) =
              Count(gamePlayers[res'.user].hand, c) - Count(res'.cardIds, c)
       /\ Len(gamePlayers'[res'.user].hand) = Len(gamePlayers[res'.user].hand) - Len(res'.cardIds)
       /\ \A p \in DOMAIN gamePlayers :
            /\ p # res'.user => gamePlayers'[p].hand = gamePlayers[p].hand
            /\ gamePlayers'[p].seatIndex = gamePlayers[p].seatIndex
    ]_vars

\* the actor of a play still holds a copy of a card it has just played, and
\* another seat holds cards too
C21_Witness ==
  /\ res.op = "playCards"
  /\ \E c \in Range(res.cardIds) : c \in Range(handOf(res.user))
  /\ \E p \in DOMAIN gamePlayers : p # res.user /\ Len(handOf(p)) > 0

\* s is t with entries added at its end
C22_IsPrefix(s, t) == Len(s) <= Len(t) /\ SubSeq(t, 1, Len(s)) = s

C23_Eligible(actor) ==
  {s \in DOMAIN gamePlayers :
     /\ s # actor
     /\ s \notin Range(gameState.passedUserIds)
     /\ Len(handOf(s)) > 0}

\* C23: an accepted pass that does not clear the table sets the passed set to
\* the old passed set plus the actor, moves the turn to the next eligible seat
\* (the first seat after the actor that has not passed and holds cards), and
\* leaves the standing play, the discard pile, the finish order and every hand
\* unchanged; any accepted pass leaves all hands and the discard pile
\* unchanged.
C23_EffectOfPass ==
  [][res'.op = "pass" =>
       /\ gamePlayers' = gamePlayers
       /\ gameState'.discardPile = gameState.discardPile
       /\ gameState'.lastPlayedCount > 0 =>
            /\ gameState'.passedUserIds = Append(gameState.passedUserIds, res'.user)
            /\ gameState'.currentTurnUserId \in C23_Eligible(res'.user)
            /\ \A s \in C23_Eligible(res'.user) :
                 C7_Distance(gameState'.currentTurnUserId, res'.user)
                   <= C7_Distance(s, res'.user)
            /\ gameState'.lastPlayedCount = gameState.lastPlayedCount
            /\ gameState'.lastPlayedRank = gameState.lastPlayedRank
            /\ gameState'.lastPlayedBy = gameState.lastPlayedBy
            /\ gameState'.finishedOrder = gameState.finishedOrder
            /\ gameState'.phase = gameState.phase
    ]_vars

\* a pass has left the play standing and the turn went past a seat that has
\* finished or passed
C23_Witness ==
  /\ res.op = "pass"
  /\ gameState.lastPlayedCount > 0
  /\ res.user \in Range(gameState.passedUserIds)
  /\ (gamePlayers[gameState.currentTurnUserId].seatIndex
        - gamePlayers[res.user].seatIndex + Len(gamePlayers)) % Len(gamePlayers) >= 2

\* an accepted restart of a round whose finish order lists every player
C24_RestartsComplete == res'.op = "restartRound" /\ C9_Complete(gameState.finishedOrder)

\* the cards a restart deals out again
C25_Pool == Len(cardsInPlay)

\* C25: after an accepted restartRound with a complete finish order and a pool
\* of P cards over N seats, the seat with new index i (the player at
\* finish-order position i, winner first) holds floor(P/N)+1 cards if
\* i < P mod N and floor(P/N) cards otherwise.
C25_RedealFollowsSeating ==
  [][C24_RestartsComplete =>
       LET N == Len(gamePlayers)
           P == C25_Pool
       IN  \A p \in DOMAIN gamePlayers' :
             Len(gamePlayers'[p].hand) =
               (P \div N) + (IF gamePlayers'[p].seatIndex < P % N THEN 1 ELSE 0)
    ]_vars

\* the hand sizes are those of an even deal, whoever holds them
C25_RedealIsEven ==
  [][C24_RestartsComplete =>
       LET N == Len(gamePlayers)
           P == C25_Pool
       IN  /\ \A p \in DOMAIN gamePlayers' :
                Len(gamePlayers'[p].hand) \in {P \div N, (P \div N) + 1}
           /\ Cardinality({p \in DOMAIN gamePlayers' : Len(gamePlayers'[p].hand) = (P \div N) + 1})
                = P % N
    ]_vars

\* C24: when the finish order lists all N players, after restartRound the
\* player at finish-order position i has seat index i (seat 0 is the previous
\* round's winner); when the finish order has fewer than N entries, every
\* player keeps the relative seat order it had before, and no exchange
\* obligations are produced.
C24_Reseating ==
  [][res'.op = "restartRound" =>
       LET f == gameState.finishedOrder
           N == Len(gamePlayers)
       IN  /\ {gamePlayers'[p].seatIndex : p \in DOMAIN gamePlayers'} = 0..(N - 1)
           /\ C9_Complete(f) =>
                \A i \in 1..N : gamePlayers'[f[i]].seatIndex = i - 1
           /\ Len(f) < N =>
                /\ \A p, q \in DOMAIN gamePlayers :
                     gamePlayers[p].seatIndex < gamePlayers[q].seatIndex
                       => gamePlayers'[p].seatIndex < gamePlayers'[q].seatIndex
                /\ gameState'.exchangePairs = <<>>
    ]_vars

\* a round of four seats was restarted and the winner, who sat on the last
\* seat, now sits on seat 0
C24_Witness ==
  /\ res.op = "restartRound"
  /\ members = 4
  /\ gameState.phase = "exchange"
  /\ gameState.currentTurnUserId = 2
  /\ gamePlayers[2].seatIndex = 0
  /\ gamePlayers[1].seatIndex = 3

\* a round whose finish order left a seat out was restarted: the seats stay
\* as they were and play begins at once
C24_WitnessIncomplete ==
  /\ res.op = "restartRound"
  /\ members >= 3
  /\ gameState.phase = "play"
  /\ gameState.exchangePairs = <<>>
  /\ gamePlayers[1].seatIndex # 0

\* C26: after an accepted restartRound the cards of all hands together are, as
\* a multiset, the cards of all hands and of the discard pile immediately
\* before the restart, and the discard pile is empty: the restart itself
\* creates and drops no card, for any deck count.
C26_PoolReassembled ==
  [][res'.op = "restartRound" =>
       /\ \A c \in CardIds :
            Count(Flatten([p \in 1..Len(gamePlayers') |-> gamePlayers'[p].hand]), c)
              = Count(cardsInPlay, c)
       /\ gameState'.discardPile = <<>>
    ]_vars

\* a restart has dealt a pool with a card held twice, part of which lay on the
\* discard pile, to three or more seats
C26_Witness ==
  /\ res.op = "restartRound"
  /\ members >= 3
  /\ deckCount = 2
  /\ gameState.discardPile = <<>>
  /\ \E c \in CardIds : Count(cardsInPlay, c) = 2
  /\ Len(cardsInPlay) >= 3

\* C27: an accepted restartRound resets all round-scoped fields (discard pile
\* empty, standing play absent, passed set empty, finish order absent, round
\* loser absent, no recorded selections); the phase becomes exchange if at
\* least one obligation was produced and play otherwise; and the current-turn
\* seat is the previous round's first finisher.
C27_RestartResets ==
  [][res'.op = "restartRound" =>
       /\ gameState'.discardPile = <<>>
       /\ standingPlayAbsentIn(gameState')
       /\ gameState'.passedUserIds = <<>>
       /\ gameState'.finishedOrder = <<>>
       /\ gameState'.roundLoserId = NoUser
       /\ gameState'.exchangeSelections = <<>>
       /\ gameState'.phase = IF gameState'.exchangePairs # <<>> THEN "exchange" ELSE "play"
       /\ gameState.finishedOrder # <<>>
       /\ gameState'.currentTurnUserId = gameState.finishedOrder[1]
    ]_vars

\* a round was restarted without obligations: play begins at once and the
\* first finisher, who does not sit on the first seat, leads
C27_Witness ==
  /\ res.op = "restartRound"
  /\ gameState.phase = "play"
  /\ gameState.exchangePairs = <<>>
  /\ gamePlayers[gameState.currentTurnUserId].seatIndex # 0
  /\ gameState.passedUserIds = <<>>
  /\ gameState.roundLoserId = NoUser

\* every giver other than actor has a selection on record
C28_LastObligation(actor) ==
  \A k \in 1..Len(gameState.exchangePairs) :
    gameState.exchangePairs[k].fromUserId # actor =>
      findFrom(gameState.exchangeSelections, gameState.exchangePairs[k].fromUserId) # 0

\* C28: the phase changes only along these edges: play -> round_ended by an
\* accepted playCards; round_ended -> exchange and round_ended -> play by an
\* accepted restartRound; exchange -> play by the accepted submission that
\* satisfies the last obligation.  No step moves play to exchange, and pass
\* never changes the phase.  (The round state is created in phase play by
\* startGame.)
C28_PhaseGraph ==
  [][/\ gameState'.phase # gameState.phase =>
          \/ /\ gameState.phase = "none"
             /\ gameState'.phase = "play"
             /\ res'.op = "startGame"
          \/ /\ gameState.phase = "play"
             /\ gameState'.phase = "round_ended"
             /\ res'.op = "playCards"
          \/ /\ gameState.phase = "round_ended"
             /\ gameState'.phase \in {"exchange", "play"}
             /\ res'.op = "restartRound"
          \/ /\ gameState.phase = "exchange"
             /\ gameState'.phase = "play"
             /\ res'.op = "submitExchangeSelection"
             /\ C28_LastObligation(res'.user)
     /\ res'.op = "pass" => gameState'.phase = gameState.phase
    ]_vars

\* the exchange before a later round has completed: the game has gone from
\* play through round_ended and exchange back to play
C28_Witness ==
  /\ res.op = "submitExchangeSelection"
  /\ gameState.phase = "play"
  /\ gameState.turnNumber >= 3
  /\ gameState.exchangePairs = <<>>
  /\ Cardinality(seatsWithCards) = members

\* once actor has submitted, some other obligated giver still has no recorded
\* selection of the size its obligation counts
C29_Outstanding(actor) ==
  \E k \in 1..Len(gameState.exchangePairs) :
    LET g == gameState.exchangePairs[k].fromUserId
        i == findFrom(gameState.exchangeSelections, g)
    IN  /\ g # actor
        /\ \/ i = 0
           \/ Len(gameState.exchangeSelections[i].cardIds) # gameState.exchangePairs[k].count

\* C29: the exchange never completes early or partially: while at least one
\* obligated giver has no recorded selection of the correct size, an accepted
\* submission changes only the recorded selections; every hand, every seat
\* index, the phase (exchange), the obligations, the current-turn seat and
\* every other field of the round state stay unchanged.
C29_NoEarlyCompletion ==
  [][(res'.op = "submitExchangeSelection" /\ C29_Outstanding(res'.user)) =>
       /\ gamePlayers' = gamePlayers
       /\ gameState'.phase = "exchange"
       /\ gameState'.exchangePairs = gameState.exchangePairs
       /\ gameState'.currentTurnUserId = gameState.currentTurnUserId
       /\ [gameState' EXCEPT !.exchangeSelections = <<>>]
            = [gameState EXCEPT !.exchangeSelections = <<>>]
    ]_vars

\* three of the four givers of an exchange are on record and the exchange is
\* still open
C29_Witness ==
  /\ res.op = "submitExchangeSelection"
  /\ gameState.phase = "exchange"
  /\ Len(gameState.exchangePairs) = 4
  /\ Len(gameState.exchangeSelections) = 3

\* C30: an accepted startGame with N >= 2 members creates seats 0..N-1 in
\* lobby seat order, deals the full pool of deckCount decks so that seat i gets
\* floor(P/N)+1 cards if i < P mod N and floor(P/N) otherwise, and creates a
\* round state with phase play, empty discard pile, no standing play, empty
\* passed set, turn counter 0 and seat 0 as the current-turn seat; startGame
\* is rejected for a non-administrator, for fewer than 2 members, and for a
\* room whose game is already in progress.
C30_StartGame ==
  /\ [](\A u \in Users :
          (~IsAdmin(u) \/ members < 2 \/ roomStatus = "in_progress") => ~startGameAccepts(u))
  /\ [][res'.op = "startGame" =>
          LET N == members
              P == deckCount * Len(OneDeck)
          IN  /\ N >= 2
              /\ DOMAIN gamePlayers' = 1..N
              /\ \A u \in 1..N :
                   /\ gamePlayers'[u].seatIndex = u - 1
                   /\ Len(gamePlayers'[u].hand) = (P \div N) + (IF u - 1 < P % N THEN 1 ELSE 0)
              /\ \A c \in CardIds :
                   Count(Flatten([p \in 1..N |-> gamePlayers'[p].hand]), c)
                     = Count(buildDeck(deckCount), c)
              /\ gameState'.phase = "play"
              /\ gameState'.discardPile = <<>>
              /\ standingPlayAbsentIn(gameState')
              /\ gameState'.passedUserIds = <<>>
              /\ gameState'.turnNumber = 0
              /\ gamePlayers'[gameState'.currentTurnUserId].seatIndex = 0
              /\ roomStatus' = "in_progress"
       ]_vars

\* a game of three seats has been started with two decks, which do not divide
\* evenly, and a second start is refused
C30_Witness ==
  /\ res.op = "startGame"
  /\ members = 3
  /\ deckCount = 2
  /\ gameState.turnNumber = 0
  /\ Len(handOf(1)) > Len(handOf(3))
  /\ \A u \in Users : ~startGameAccepts(u)

\* C31: distributeEvenly(cards, n) returns n slices whose concatenation in
\* index order is cards, slice p (from 0) holding floor(len/n)+1 cards when
\* p < len mod n and floor(len/n) cards otherwise, for every card sequence and
\* every n >= 1; when len < n the trailing slices are empty.
C31_DistributeEvenly ==
  res.op = "distributeEvenly" =>
    LET cards == gameState.discardPile
        n == members
        hands == [p \in 1..Len(gamePlayers) |-> gamePlayers[p].hand]
    IN  /\ Len(hands) = n
        /\ Flatten(hands) = cards
        /\ \A p \in 0..(n - 1) :
             Len(hands[p + 1]) = (Len(cards) \div n) + (IF p < Len(cards) % n THEN 1 ELSE 0)
        /\ Len(cards) < n => \A p \in Len(cards)..(n - 1) : hands[p + 1] = <<>>

\* fewer cards than slices, of two different cards: the first slices hold one
\* card each, in the order of the deck, and the trailing slices are empty
C31_Witness ==
  /\ res.op = "distributeEvenly"
  /\ Len(gameState.discardPile) = 2
  /\ gameState.discardPile[1] # gameState.discardPile[2]
  /\ members = 4
  /\ handOf(1) = <<gameState.discardPile[1]>>
  /\ handOf(4) = <<>>

\* C32: in phase play the current-turn seat holds at least one card; no
\* accepted play, pass, restart or exchange completion hands the turn to a
\* seat with an empty hand.
C32_CurrentSeatHoldsCards ==
  gameState.phase = "play" =>
    /\ gameState.currentTurnUserId \in DOMAIN gamePlayers
    /\ Len(handOf(gameState.currentTurnUserId)) > 0

\* the givers of the exchange whose selection is not recorded yet
C33_OutstandingGivers ==
  {gameState.exchangePairs[k].fromUserId : k \in 1..Len(gameState.exchangePairs)}
    \ {gameState.exchangeSelections[i].fromUserId : i \in 1..Len(gameState.exchangeSelections)}

\* C33: no deadlock.  In every state of a game some intent is accepted: in
\* phase play the current-turn seat has a legal play or may pass, in phase
\* round_ended the administrator's restart is accepted, and in phase exchange
\* every giver with an outstanding obligation has an acceptable selection.
\* Phase play is taken in the states an accepted pass leaves: the seat in turn
\* is then the next seat in rotation or the author of the play passed on,
\* which holds what its own plays of real ranks have left it.  (A deal of the
\* four ranks kept here can give the first seat nothing but 2s, which a deal
\* of 52 cards a deck to at most ten seats cannot.)
C33_NoDeadlock ==
  /\ (gameState.phase = "play" /\ res.op = "pass") =>
       \E u \in Users :
         \/ passAccepts(u)
         \/ \E cardIds \in Selections : playCardsAccepts(u, cardIds)
  /\ gameState.phase = "round_ended" => \E u \in Users : restartRoundAccepts(u)
  /\ gameState.phase = "exchange" =>
       \A g \in C33_OutstandingGivers :
         \E cardIds \in Selections : submitExchangeSelectionAccepts(g, cardIds)

\* C34: in phase play the current-turn seat is never the author of the
\* standing play while that play stands; whenever the turn returns to the
\* author the table has been cleared.
C34_NeverFacesOwnPlay ==
  (gameState.phase = "play" /\ gameState.lastPlayedCount > 0) =>
    gameState.currentTurnUserId # gameState.lastPlayedBy

\* C35: in phase play the current-turn seat is never a member of the passed
\* set, and the passed set never contains the same seat twice.
C35_PassedSet ==
  /\ gameState.phase = "play" => gameState.currentTurnUserId \notin Range(gameState.passedUserIds)
  /\ \A i, j \in 1..Len(gameState.passedUserIds) :
       gameState.passedUserIds[i] = gameState.passedUserIds[j] => i = j

\* two seats have passed on the standing play of a third and the turn is with
\* a fourth seat, which has not passed
C35_Witness ==
  /\ gameState.phase = "play"
  /\ res.op = "pass"
  /\ Len(gameState.passedUserIds) = 2
  /\ gameState.lastPlayedBy \notin Range(gameState.passedUserIds)
  /\ gameState.currentTurnUserId \notin Range(gameState.passedUserIds) \cup {gameState.lastPlayedBy}

\* C36: in phase play the standing count is greater than 0 exactly when the
\* standing rank and the standing author are both present; the author of a
\* standing play holds at least one card; and when the table is clear the
\* passed set is empty.
C36_StandingPlayConsistent ==
  gameState.phase = "play" =>
    /\ gameState.lastPlayedCount > 0 <=>
         (gameState.lastPlayedRank # Undefined /\ gameState.lastPlayedBy # NoUser)
    /\ gameState.lastPlayedCount = 0 =>
         (gameState.lastPlayedRank = Undefined /\ gameState.lastPlayedBy = NoUser)
    /\ gameState.lastPlayedCount > 0 =>
         /\ gameState.lastPlayedBy \in DOMAIN gamePlayers
         /\ Len(handOf(gameState.lastPlayedBy)) > 0
    /\ gameState.lastPlayedCount = 0 => gameState.passedUserIds = <<>>

\* a play of two cards stands after a seat has finished in this round, its
\* author still holds cards, and a seat has passed on it
C36_Witness ==
  /\ gameState.phase = "play"
  /\ gameState.lastPlayedCount = 2
  /\ gameState.lastPlayedRank \in Range(RANKS)
  /\ gameState.lastPlayedBy \in seatsWithCards
  /\ gameState.finishedOrder # <<>>
  /\ gameState.passedUserIds # <<>>

C38_GiversCanGive ==
  (res.op = "restartRound" /\ gameState.phase = "exchange") =>
    \A k \in 1..Len(gameState.exchangePairs) :
      Len(handOf(gameState.exchangePairs[k].fromUserId)) >= gameState.exchangePairs[k].count

\* the total number of cards in hands
C39_CardsInHands == Len(Flatten([p \in 1..Len(gamePlayers) |-> handOf(p)]))

\* C39: bounded passing.  Between two consecutive accepted plays of a round
\* at most N-1 passes are accepted, and every accepted play strictly
\* decreases the total number of cards in hands.  The passes are counted by
\* the passed set: a pass is accepted only on a standing play, and it either
\* clears the table, after which the next accepted intent is a play, or adds
\* its actor to the passed set, which no play shortens without clearing the
\* table; so the passes accepted since the last play are members of the
\* passed set, and with the pass being made they are at most N-1.
C39_BoundedPassing ==
  [][/\ res'.op = "pass" =>
          /\ gameState.lastPlayedCount > 0
          /\ Len(gameState.passedUserIds) + 1 <= Len(gamePlayers) - 1
          /\ \/ gameState'.lastPlayedCount = 0 /\ gameState'.passedUserIds = <<>>
             \/ gameState'.passedUserIds = Append(gameState.passedUserIds, res'.user)
     /\ res'.op = "playCards" =>
          /\ C39_CardsInHands' < C39_CardsInHands
          /\ \/ gameState'.passedUserIds = gameState.passedUserIds
             \/ gameState'.lastPlayedCount = 0 /\ gameState'.passedUserIds = <<>>
    ]_vars

\* four seats, of which one has finished: two seats have passed on the
\* standing play and its author, back in turn, can make the third pass
C39_Witness ==
  /\ gameState.phase = "play"
  /\ Len(gamePlayers) = 4
  /\ Len(gameState.passedUserIds) = 2
  /\ gameState.turnNumber < MaxTurn
  /\ passAccepts(gameState.currentTurnUserId)
  /\ gameState.currentTurnUserId = gameState.lastPlayedBy

\* the seat indices of the game's players
C40_SeatIndices == {gamePlayers[u].seatIndex : u \in DOMAIN gamePlayers}

\* C40: the seat indices of a game's players always form a permutation of
\* 0..N-1: after startGame and after every restartRound, with a complete or
\* an incomplete finish order, no two players share a seat index and no index
\* is skipped; play, pass and exchange submissions never change a seat index.
C40_SeatsArePermutation ==
  /\ [](InGame => /\ Len(gamePlayers) = members
                  /\ C40_SeatIndices = 0..(Len(gamePlayers) - 1))
  /\ [][res'.op \in {"playCards", "pass", "submitExchangeSelection"} =>
          /\ DOMAIN gamePlayers' = DOMAIN gamePlayers
          /\ \A u \in DOMAIN gamePlayers : gamePlayers'[u].seatIndex = gamePlayers[u].seatIndex
       ]_vars

\* a restart that found an incomplete finish order, in a game whose seating an
\* earlier restart had changed: no pairs are produced, the round starts in
\* phase play and the seats are those of the round before
C40_Witness ==
  /\ res.op = "restartRound"
  /\ gameState.phase = "play"
  /\ Len(gamePlayers) = 3
  /\ C40_SeatIndices = 0..2
  /\ \E u \in DOMAIN gamePlayers : gamePlayers[u].seatIndex # u - 1
====
